---- MODULE Spec2Model ----
(***************************************************************************)
(* Model of dynamic-hls-api: the MPEG transport-stream muxer (mpegts.rs)   *)
(* and the segment / playlist handlers (routes.rs).                        *)
(*                                                                         *)
(* Three specifications share the definitions of the muxer:                *)
(*   Spec     the TransportStream object driven through its public API     *)
(*            (new, push_video, write_to);                                 *)
(*   SpecHls  the HTTP handlers get_playlist and get_segment over a        *)
(*            directory of stored frames, one call at a time;              *)
(*   SpecConc the same handlers serving several requests at once, one      *)
(*            round of a handler's loop per step.                          *)
(***************************************************************************)
EXTENDS Integers, Sequences, FiniteSets, TLC

VARIABLES
    ts,               \* the TransportStream: video_continuity_counter, packets
    result,           \* the last call on the TransportStream and what it returned
    pushed,           \* arguments of the push_video calls that returned Ok
    overflow_checks,  \* build profile: TRUE = arithmetic overflow panics
    stored,           \* number of frames stored in the stream's directory
    response,         \* the last HTTP response produced by a handler
    tasks             \* the handler calls in progress: the local values of each

vars == <<ts, result, pushed, overflow_checks, stored, response, tasks>>

----------------------------------------------------------------------------
(* Bounds of the model.                                                    *)

\* successful push_video calls explored on one TransportStream
MaxPushes == 3

\* frames stored in the directory of the stream
MaxFiles == 205

----------------------------------------------------------------------------
(* u64 arithmetic.  A u64 is four 16-bit limbs, least significant first,   *)
(* so that every intermediate value stays far below the 32-bit range of    *)
(* TLC's integers.                                                         *)

LimbBase == 2^16

Min(a, b) == IF a < b THEN a ELSE b

Max(a, b) == IF a < b THEN b ELSE a

\* a small natural number (below 2^31) as a u64
U64(n) == <<n % LimbBase, n \div LimbBase, 0, 0>>

U64Zero == <<0, 0, 0, 0>>

\* a * k for a small factor k: the low 64 bits and the carry out of them
MulU64(a, k) ==
    LET p1 == a[1] * k
        p2 == a[2] * k + (p1 \div LimbBase)
        p3 == a[3] * k + (p2 \div LimbBase)
        p4 == a[4] * k + (p3 \div LimbBase)
    IN  [val   |-> <<p1 % LimbBase, p2 % LimbBase, p3 % LimbBase, p4 % LimbBase>>,
         carry |-> p4 \div LimbBase]

\* a + b: the low 64 bits and the carry out of them
AddU64(a, b) ==
    LET s1 == a[1] + b[1]
        s2 == a[2] + b[2] + (s1 \div LimbBase)
        s3 == a[3] + b[3] + (s2 \div LimbBase)
        s4 == a[4] + b[4] + (s3 \div LimbBase)
    IN  [val   |-> <<s1 % LimbBase, s2 % LimbBase, s3 % LimbBase, s4 % LimbBase>>,
         carry |-> s4 \div LimbBase]

\* a <= b
LeU64(a, b) ==
    \/ a[4] < b[4]
    \/ a[4] = b[4] /\ a[3] < b[3]
    \/ a[4] = b[4] /\ a[3] = b[3] /\ a[2] < b[2]
    \/ a[4] = b[4] /\ a[3] = b[3] /\ a[2] = b[2] /\ a[1] <= b[1]

\* mpeg2ts::time::Timestamp::MAX = (1 << 33) - 1
TimestampMax == <<65535, 65535, 1, 0>>

\* mpeg2ts::time::ClockReference::MAX = ((1 << 33) - 1) * 300 + 0b1_1111_1111
ClockReferenceMax == AddU64(MulU64(TimestampMax, 300).val, U64(511)).val

----------------------------------------------------------------------------
(* Constants of mpegts.rs.                                                 *)

PMT_PID == 256
VIDEO_ES_PID == 257
PES_VIDEO_STREAM_ID == 224

\* mpeg2ts::ts::payload::Bytes::MAX_SIZE
BytesMaxSize == 188 - 4

\* the clock rate of PTS, DTS and PCR base, in ticks per millisecond
TicksPerMs == 90

None == [none |-> TRUE]

Ok(v) == [status |-> "Ok", value |-> v]

Err(kind, v) == [status |-> "Err", kind |-> kind, value |-> v]

Panic == [status |-> "Panic"]

----------------------------------------------------------------------------
(* The muxer: mpegts.rs.                                                   *)

\* ContinuityCounter::increment: a 4-bit counter
increment(cc) == (cc + 1) % 16

\* Pid::new accepts 13-bit values
default_ts_header(pid) ==
    IF pid <= 8191
    THEN Ok([transport_error_indicator |-> FALSE,
             transport_priority |-> FALSE,
             pid |-> pid,
             transport_scrambling_control |-> "NotScrambled",
             continuity_counter |-> 0])
    ELSE Err("InvalidPacketId", U64(pid))

default_pat_packet ==
    [header |-> default_ts_header(0).value,
     adaptation_field |-> None,
     payload |-> [kind |-> "Pat",
                  transport_stream_id |-> 1,
                  version_number |-> 0,
                  table |-> <<[program_num |-> 1, program_map_pid |-> PMT_PID]>>]]

default_pmt_packet ==
    [header |-> default_ts_header(PMT_PID).value,
     adaptation_field |-> None,
     payload |-> [kind |-> "Pmt",
                  program_num |-> 1,
                  pcr_pid |-> VIDEO_ES_PID,
                  version_number |-> 0,
                  program_info |-> <<>>,
                  es_info |-> <<[stream_type |-> "H264",
                                 elementary_pid |-> VIDEO_ES_PID,
                                 descriptors |-> <<>>]>>]]

\* ts::payload::Bytes::new fails above MAX_SIZE
make_raw_payload(pes_data) ==
    IF Len(pes_data) <= BytesMaxSize
    THEN Ok(pes_data)
    ELSE Err("PayloadTooBig", U64Zero)

make_timestamp(t) ==
    IF LeU64(t, TimestampMax) THEN Ok(t) ELSE Err("InvalidTimestamp", t)

make_clock_reference(t) ==
    IF LeU64(t, ClockReferenceMax) THEN Ok(t) ELSE Err("ClockValueOutOfRange", t)

\* u64 `a * 90`: panics on overflow when the build checks it, wraps otherwise
ticks(a, checks) ==
    LET m == MulU64(a, TicksPerMs)
    IN  IF m.carry # 0 /\ checks THEN Panic ELSE Ok(m.val)

\* u64 `a + b`, likewise
plus(a, b, checks) ==
    LET s == AddU64(a, b)
    IN  IF s.carry # 0 /\ checks THEN Panic ELSE Ok(s.val)

\* first_chunk_items cutting 153 bytes, one more than the code
first_chunk_items_153(remaining) == Min(remaining, 153)

\* bytes cut for the PES (first) packet of a sample
first_chunk_items(remaining) == Min(remaining, 153 - 1)

\* continuation_items cutting one byte more than a packet holds
continuation_items_too_big(remaining) == Min(remaining, BytesMaxSize + 1)

\* bytes cut for one continuation packet
continuation_items(remaining) == Min(remaining, BytesMaxSize - 1)

\* adaptation_field_of ignoring the keyframe flag
adaptation_field_always(keyframe, pcr) ==
    [none |-> FALSE,
     discontinuity_indicator |-> FALSE,
     random_access_indicator |-> TRUE,
     es_priority_indicator |-> FALSE,
     pcr |-> pcr,
     opcr |-> None,
     splice_countdown |-> None,
     transport_private_data |-> <<>>,
     extension |-> None]

\* No adaptation field unless the sample is a keyframe
adaptation_field_of(keyframe, pcr) ==
    IF keyframe
    THEN [none |-> FALSE,
          discontinuity_indicator |-> FALSE,
          random_access_indicator |-> TRUE,
          es_priority_indicator |-> FALSE,
          pcr |-> pcr,
          opcr |-> None,
          splice_countdown |-> None,
          transport_private_data |-> <<>>,
          extension |-> None]
    ELSE None

pes_packet(header, keyframe, pcr, pts, dts, data) ==
    [header |-> header,
     adaptation_field |-> adaptation_field_of(keyframe, pcr),
     payload |-> [kind |-> "Pes",
                  header |-> [stream_id |-> PES_VIDEO_STREAM_ID,
                              priority |-> FALSE,
                              data_alignment_indicator |-> FALSE,
                              copyright |-> FALSE,
                              original_or_copy |-> FALSE,
                              pts |-> pts,
                              dts |-> dts,
                              escr |-> None],
                  pes_packet_len |-> 0,
                  data |-> data]]

raw_packet(header, data) ==
    [header |-> header,
     adaptation_field |-> None,
     payload |-> [kind |-> "Raw", data |-> data]]

\* The `while buf.has_remaining()` loop of push_video, from buffer position
\* pos with the local header and the packet list as they stand.
RECURSIVE push_continuations(_, _, _, _)
push_continuations(video, pos, header, packets) ==
    IF pos >= Len(video)
    THEN [res |-> Ok(U64Zero), header |-> header, packets |-> packets]
    ELSE LET items == continuation_items(Len(video) - pos)
             raw_payload == make_raw_payload(SubSeq(video, pos + 1, pos + items))
         IN  IF raw_payload.status = "Err"
             THEN [res |-> raw_payload, header |-> header, packets |-> packets]
             ELSE push_continuations(
                      video,
                      pos + Len(raw_payload.value),
                      [header EXCEPT !.continuity_counter = increment(@)],
                      Append(packets, raw_packet(header, raw_payload.value)))

\* push_built without the final store of the counter into the TransportStream
push_built_counter_not_stored(self, video, header, packet, advanced) ==
    LET rest == push_continuations(
                    video, advanced,
                    [header EXCEPT !.continuity_counter = increment(@)],
                    Append(self.packets, packet))
    IN  [res |-> rest.res, ts |-> [self EXCEPT !.packets = rest.packets]]

\* The part of push_video after the first packet has been built.
push_built(self, video, header, packet, advanced) ==
    LET rest == push_continuations(
                    video, advanced,
                    [header EXCEPT !.continuity_counter = increment(@)],
                    Append(self.packets, packet))
    IN  IF rest.res.status = "Err"
        THEN [res |-> rest.res,
              ts  |-> [self EXCEPT !.packets = rest.packets]]
        ELSE [res |-> Ok(U64Zero),
              ts  |-> [video_continuity_counter |-> rest.header.continuity_counter,
                       packets |-> rest.packets]]

\* TransportStream::push_video: the result and the TransportStream after it
push_video(self, timestamp, composition_time, keyframe, video, checks) ==
    LET hdr  == default_ts_header(VIDEO_ES_PID)
        data == make_raw_payload(SubSeq(video, 1, first_chunk_items(Len(video))))
        t90  == ticks(timestamp, checks)
        sum  == plus(timestamp, composition_time, checks)
        fail(r) == [res |-> r, ts |-> self]
    IN  IF hdr.status = "Err" THEN fail(hdr)
        ELSE IF data.status = "Err" THEN fail(data)
        ELSE IF t90.status = "Panic" THEN fail(Panic)
        ELSE LET pcr == make_clock_reference(t90.value)
             IN  IF pcr.status = "Err" THEN fail(pcr)
                 ELSE IF sum.status = "Panic" THEN fail(Panic)
                 ELSE LET s90 == ticks(sum.value, checks)
                      IN  IF s90.status = "Panic" THEN fail(Panic)
                          ELSE LET pts == make_timestamp(s90.value)
                                   dts == make_timestamp(t90.value)
                                   header == [hdr.value EXCEPT !.continuity_counter =
                                                  self.video_continuity_counter]
                               IN  IF pts.status = "Err" THEN fail(pts)
                                   ELSE IF dts.status = "Err" THEN fail(dts)
                                   ELSE push_built(
                                            self, video, header,
                                            pes_packet(header, keyframe, pcr.value,
                                                       pts.value, dts.value, data.value),
                                            Len(data.value))

\* impl Default for TransportStream
default_ts == [video_continuity_counter |-> 0, packets |-> <<>>]

\* write_to draining the packets it has written
write_to_self_drained(self) == [self EXCEPT !.packets = <<>>]

\* The TransportStream after write_to(&mut self): the packets are only
\* read, through &self.packets, and the counter is not touched.
write_to_self(self) == self

\* write_to emitting nothing at all for a stream without packets
write_to_nothing_when_empty(self) ==
    IF self.packets = <<>> THEN <<>>
    ELSE <<default_pat_packet, default_pmt_packet>> \o self.packets

\* write_to emitting the tables after the accumulated packets
write_to_tables_last(self) == self.packets \o <<default_pat_packet, default_pmt_packet>>

\* TransportStream::write_to with an in-memory writer: the two tables, then
\* the accumulated packets; the TransportStream itself is only read.
write_to(self) == <<default_pat_packet, default_pmt_packet>> \o self.packets

----------------------------------------------------------------------------
(* Specification Spec: one TransportStream driven through its public API.  *)

\* The bytes of a sample: `len` bytes that differ from one position to the
\* next and from one sample to another.
Video(len, seed) == [i \in 1..len |-> (seed + 7 * i) % 256]

Sample(t, ct, kf, len, seed) ==
    [timestamp |-> t, composition_time |-> ct, keyframe |-> kf,
     len |-> len, seed |-> seed]

\* Arguments push_video is called with: payloads around the chunk sizes
\* (0, 152, 153, 152 + 184, 152 + 4 * 183 + 1 bytes) and timestamps around
\* the limits of Timestamp, ClockReference and u64.
Samples ==
    { Sample(U64(0), U64(0), TRUE, 0, 1),
      Sample(U64(50), U64(0), FALSE, 152, 2),
      Sample(U64(100), U64(1), TRUE, 153, 3),
      Sample(U64(95443717), U64(0), FALSE, 336, 4),     \* 95443717 * 90 <= 2^33 - 1
      Sample(U64(150), U64(0), FALSE, 885, 5),
      Sample(U64(95443717), U64(1), FALSE, 1, 6),       \* PTS above 2^33 - 1
      Sample(U64(95443718), U64(0), TRUE, 1, 7),        \* DTS above 2^33 - 1
      Sample(<<43693, 43690, 6, 0>>, U64(0), TRUE, 1, 8),  \* 28633115309: PCR in range
      Sample(<<43694, 43690, 6, 0>>, U64(0), TRUE, 1, 9),  \* 28633115310: PCR too big
      Sample(<<0, 0, 0, 32768>>, U64(0), TRUE, 1, 10),     \* 2^63: 2^63 * 90 = 0 mod 2^64
      Sample(U64(1), <<65535, 65535, 65535, 65535>>, FALSE, 1, 11) }  \* 1 + (2^64 - 1)

Call(op, args, res) == [op |-> op, args |-> args, res |-> res]

NoArgs == [none |-> TRUE]

MuxInit ==
    /\ ts = default_ts
    /\ result = Call("new", NoArgs, Ok(U64Zero))
    /\ pushed = <<>>

\* TransportStream::new()
New ==
    /\ result.op # "new"
    /\ ts' = default_ts
    /\ result' = Call("new", NoArgs, Ok(U64Zero))
    /\ pushed' = <<>>
    /\ UNCHANGED <<overflow_checks, stored, response, tasks>>

\* ts.push_video(timestamp, composition_time, keyframe, video)
PushVideo ==
    /\ result.res.status # "Panic"
    /\ Len(pushed) < MaxPushes
    /\ \E s \in Samples :
         LET r == push_video(ts, s.timestamp, s.composition_time, s.keyframe,
                             Video(s.len, s.seed), overflow_checks)
         IN  /\ ts' = r.ts
             /\ result' = Call("push_video", s, r.res)
             /\ pushed' = IF r.res.status = "Ok" THEN Append(pushed, s) ELSE pushed
    /\ UNCHANGED <<overflow_checks, stored, response, tasks>>

\* ts.write_to(Cursor::new(Vec::new()))
WriteTo ==
    /\ result.res.status # "Panic"
    /\ result' = Call("write_to", NoArgs, Ok(write_to(ts)))
    /\ ts' = write_to_self(ts)
    /\ UNCHANGED <<pushed, overflow_checks, stored, response, tasks>>

Init ==
    /\ MuxInit
    /\ overflow_checks \in BOOLEAN
    /\ stored = 0
    /\ response = [kind |-> "none"]
    /\ tasks = <<>>

Next == New \/ PushVideo \/ WriteTo

Spec == Init /\ [][Next]_vars

----------------------------------------------------------------------------
(* The handlers: routes.rs.                                                *)

\* get_frames: the names of the stored frames in ascending numeric order;
\* a frame is named here by its rank in that order.
get_frames(n) == [i \in 1..n |-> i]

\* fs::read of a stored frame: frames of 0, 1, 153 and 2 bytes
FrameLen(name) == <<0, 1, 153, 2>>[(name % 4) + 1]

read(name) == Video(FrameLen(name), name)

\* Iterator::skip and Iterator::take
skip(seq, n) == IF n >= Len(seq) THEN <<>> ELSE SubSeq(seq, n + 1, Len(seq))

take(seq, n) == IF n >= Len(seq) THEN seq ELSE SubSeq(seq, 1, n)

\* frame_files_of counting a started frame interval as a frame
frame_files_rounding_up(all, offset_ms, length_ms) ==
    take(skip(all, offset_ms \div 50), (length_ms + 49) \div 50)

\* the window of get_segment: a frame every 50 ms
frame_files_of(all, offset_ms, length_ms) ==
    take(skip(all, offset_ms \div 50), length_ms \div 50)

\* mpegts_step without `start_time += duration`
mpegts_step_time_kept(st, p, duration, checks) ==
    IF st.res.status # "Ok" THEN st
    ELSE LET r == push_video(st.ts, st.start_time, U64Zero, FALSE, read(p), checks)
         IN  IF r.res.status # "Ok"
             THEN [st EXCEPT !.res = r.res]
             ELSE [res |-> r.res, ts |-> r.ts, start_time |-> st.start_time]

\* One round of the `for p in streams` loop of h264streams_to_mpegts on
\* stream p; st holds the TransportStream, start_time and, once a call has
\* failed, the error the function has returned with.
mpegts_step(st, p, duration, checks) ==
    IF st.res.status # "Ok" THEN st
    ELSE LET r == push_video(st.ts, st.start_time, U64Zero, FALSE, read(p), checks)
             next == plus(st.start_time, U64(duration), checks)
         IN  IF r.res.status # "Ok"
             THEN [st EXCEPT !.res = r.res]
             ELSE IF next.status = "Panic"
             THEN [st EXCEPT !.res = Panic]
             ELSE [res |-> r.res, ts |-> r.ts, start_time |-> next.value]

\* The rounds of that loop for streams[lo..hi], in order (evaluated by halves)
RECURSIVE mpegts_loop(_, _, _, _, _, _)
mpegts_loop(streams, lo, hi, st, duration, checks) ==
    IF lo > hi THEN st
    ELSE IF lo = hi THEN mpegts_step(st, streams[lo], duration, checks)
    ELSE LET mid == (lo + hi) \div 2
             left == mpegts_loop(streams, lo, mid, st, duration, checks)
         IN  IF left.res.status # "Ok" THEN left
             ELSE mpegts_loop(streams, mid + 1, hi, left, duration, checks)

\* the locals of h264streams_to_mpegts before its loop
mpegts_start == [res |-> Ok(U64Zero), ts |-> default_ts, start_time |-> U64Zero]

\* what h264streams_to_mpegts returns after its loop
mpegts_end(st) == IF st.res.status # "Ok" THEN st.res ELSE Ok(write_to(st.ts))

h264streams_to_mpegts(streams, duration, checks) ==
    mpegts_end(mpegts_loop(streams, 1, Len(streams), mpegts_start, duration, checks))

\* Mp4Writer::write_sample(track_id, sample): the writer is modelled by the
\* calls made on it, in order
write_sample(wrt, track_id, sample) ==
    Append(wrt, [call |-> "write_sample", track_id |-> track_id, sample |-> sample])

\* mp4_step advancing the start time by the size of the frame
mp4_step_time_from_content(st, p) ==
    LET bytes == read(p)
        sample == [start_time |-> st.start_time, duration |-> 60000,
                   rendering_offset |-> 0, is_sync |-> FALSE, bytes |-> bytes]
    IN  [wrt |-> write_sample(st.wrt, 1, sample),
         start_time |-> st.start_time + Len(bytes)]

\* one round of the `for p in streams` loop of h264streams_to_mp4
mp4_step(st, p) ==
    LET duration == 60000
        track_id == 1
        bytes == read(p)
        sample == [start_time |-> st.start_time, duration |-> duration,
                   rendering_offset |-> 0, is_sync |-> FALSE, bytes |-> bytes]
    IN  [wrt |-> write_sample(st.wrt, track_id, sample),
         start_time |-> st.start_time + duration]

\* the rounds of that loop for streams[lo..hi], in order (evaluated by
\* halves; a writer always holds its write_start, so the test succeeds)
RECURSIVE mp4_loop(_, _, _, _)
mp4_loop(streams, lo, hi, st) ==
    IF lo > hi THEN st
    ELSE IF lo = hi THEN mp4_step(st, streams[lo])
    ELSE LET mid == (lo + hi) \div 2
             left == mp4_loop(streams, lo, mid, st)
         IN  IF Len(left.wrt) > 0
             THEN mp4_loop(streams, mid + 1, hi, left)
             ELSE left

\* the locals of h264streams_to_mp4 before its loop: the writer has been
\* started and given its one track
mp4_start ==
    LET config == [major_brand |-> "isom", minor_version |-> 512, timescale |-> 1000]
        track_cfg == [track_type |-> "Video", timescale |-> 1200000,
                      language |-> "und", width |-> 2816, height |-> 1856]
    IN  [wrt |-> <<[call |-> "write_start", config |-> config],
                   [call |-> "add_track", config |-> track_cfg]>>,
         start_time |-> 0]

\* what h264streams_to_mp4 returns after its loop
mp4_end(st) == Ok(Append(st.wrt, [call |-> "write_end"]))

\* h264streams_to_mp4: the calls the Mp4Writer is given, in order
h264streams_to_mp4(streams) == mp4_end(mp4_loop(streams, 1, Len(streams), mp4_start))

\* the bytes of streams[lo..hi] appended in order (evaluated by halves)
RECURSIVE concat_loop(_, _, _)
concat_loop(streams, lo, hi) ==
    IF lo > hi THEN <<>>
    ELSE IF lo = hi THEN read(streams[lo])
    ELSE LET mid == (lo + hi) \div 2
         IN  concat_loop(streams, lo, mid) \o concat_loop(streams, mid + 1, hi)

h264streams_concat(streams) == Ok(concat_loop(streams, 1, Len(streams)))

content_type_of(video_type) ==
    IF video_type = "Mp4" THEN "video/mp4" ELSE "video/MP2T"

\* the response of get_segment once the segment was built or has failed
segment_response(offset_ms, length_ms, video_type, frame_files, video_bytes) ==
    [kind |-> "segment",
     request |-> [offset_ms |-> offset_ms, length_ms |-> length_ms,
                  video_type |-> video_type],
     frame_files |-> frame_files,
     status |-> video_bytes.status,
     content_type |-> IF video_bytes.status = "Ok"
                      THEN content_type_of(video_type) ELSE "application/json",
     body |-> IF video_bytes.status = "Ok" THEN video_bytes.value ELSE <<>>]

\* get_segment: the response, with the frames it selected
get_segment(n, offset_ms, length_ms, video_type, checks) ==
    LET frame_files == frame_files_of(get_frames(n), offset_ms, length_ms)
        video_bytes ==
            CASE video_type = "MpegTs" -> h264streams_to_mpegts(frame_files, 50, checks)
              [] video_type = "Mp4"    -> h264streams_to_mp4(frame_files)
              [] video_type = "Raw"    -> h264streams_concat(frame_files)
    IN  segment_response(offset_ms, length_ms, video_type, frame_files, video_bytes)

PLAYLIST_HEADER ==
    <<[line |-> "#EXTM3U"], [line |-> "#EXT-X-VERSION:3"],
      [line |-> "#EXT-X-TARGETDURATION:10"], [line |-> "#EXT-X-MEDIA-SEQUENCE:0"]>>

\* "#EXTINF:{duration_secs}.0," and the segment URL of get_playlist: the
\* duration is printed as whole seconds followed by ".0"
descriptor_lines(offset_ms, length_ms) ==
    <<[line |-> "#EXTINF", secs |-> length_ms \div 1000, tenths |-> 0],
      [line |-> "segment", offset |-> offset_ms, length |-> length_ms]>>

\* the locals of get_playlist before its loop
playlist_start == [offset_ms |-> 0, length_ms |-> 0, playlist |-> PLAYLIST_HEADER]

\* the response of get_playlist
playlist_response(playlist) ==
    [kind |-> "playlist",
     content_type |-> "application/vnd.apple.mpegurl",
     status |-> "Ok",
     body |-> playlist]

\* playlist_step without `offset_ms += length_ms`
playlist_step_offset_kept(st) ==
    LET closed == IF st.length_ms = 5000
                  THEN [offset_ms |-> st.offset_ms,
                        length_ms |-> 0,
                        playlist  |-> st.playlist \o
                                      descriptor_lines(st.offset_ms, st.length_ms)]
                  ELSE st
    IN  [closed EXCEPT !.length_ms = @ + 50]

\* one round of the `for _f in files` loop of get_playlist
playlist_step(st) ==
    LET closed == IF st.length_ms = 5000
                  THEN [offset_ms |-> st.offset_ms + st.length_ms,
                        length_ms |-> 0,
                        playlist  |-> st.playlist \o
                                      descriptor_lines(st.offset_ms, st.length_ms)]
                  ELSE st
    IN  [closed EXCEPT !.length_ms = @ + 50]

\* n rounds of that loop, evaluated by halves, the first half first (a
\* round leaves length_ms positive, so the test below always succeeds)
RECURSIVE playlist_loop(_, _)
playlist_loop(n, st) ==
    IF n = 0 THEN st
    ELSE IF n = 1 THEN playlist_step(st)
    ELSE LET first == playlist_loop(n \div 2, st)
         IN  IF first.length_ms > 0
             THEN playlist_loop(n - n \div 2, first)
             ELSE first

\* playlist_end without the descriptor of the frames left after the loop
playlist_end_no_remainder(st) == st.playlist \o <<[line |-> "#EXT-X-ENDLIST"]>>

\* what get_playlist does after the loop
playlist_end(st) ==
    (IF st.length_ms # 0
     THEN st.playlist \o descriptor_lines(st.offset_ms, st.length_ms)
     ELSE st.playlist) \o <<[line |-> "#EXT-X-ENDLIST"]>>

\* get_playlist: the response
get_playlist(n) ==
    playlist_response(playlist_end(playlist_loop(Len(get_frames(n)), playlist_start)))

----------------------------------------------------------------------------
(* Specification SpecHls: the two handlers over a stored stream.           *)

\* offsets and lengths (ms) of segment requests: those a playlist lists and
\* others, on and off the frame grid, inside and past the stream
Offsets == {0, 49, 50, 5000, 6000, 10250}

Lengths == {0, 49, 50, 1499, 5000}

VideoTypes == {"MpegTs", "Mp4", "Raw"}

NoResponse == [kind |-> "none"]

\* GET /v1/playlist/:log_name
GetPlaylist ==
    /\ response = NoResponse
    /\ response' = get_playlist(stored)
    /\ UNCHANGED <<ts, result, pushed, overflow_checks, stored, tasks>>

\* GET /v1/segment/:log_name?offset=..&length=..&video_type=..
GetSegment ==
    /\ response = NoResponse
    /\ \E offset_ms \in Offsets, length_ms \in Lengths, video_type \in VideoTypes :
         response' = get_segment(stored, offset_ms, length_ms, video_type,
                                 overflow_checks)
    /\ UNCHANGED <<ts, result, pushed, overflow_checks, stored, tasks>>

\* the response has been sent; the handler's values are dropped
Sent ==
    /\ response # NoResponse
    /\ response' = NoResponse
    /\ UNCHANGED <<ts, result, pushed, overflow_checks, stored, tasks>>

\* The build profile is the release one: no sum or product of a segment of
\* at most MaxFiles frames leaves 64 bits, so it cannot change a response.
InitHls ==
    /\ MuxInit
    /\ overflow_checks = FALSE
    /\ stored \in 0..MaxFiles
    /\ response = NoResponse
    /\ tasks = <<>>

NextHls == GetPlaylist \/ GetSegment \/ Sent

SpecHls == InitHls /\ [][NextHls]_vars

----------------------------------------------------------------------------
(* Specification SpecConc: handler calls served at the same time.  The     *)
(* server runs each call on a worker; a call owns its locals (the list of  *)
(* files, the TransportStream or writer, start_time, the playlist string)  *)
(* and nothing else is written.  A step is one round of the loop of one    *)
(* call, and the steps of different calls interleave freely.               *)

\* handler calls in progress at the same time
MaxRequests == 2

\* frames stored in the directory while the calls run
MaxConcFiles == 2

Request(handler, offset_ms, length_ms) ==
    [handler |-> handler, offset_ms |-> offset_ms, length_ms |-> length_ms]

\* the requests served: the playlist, and segments in each format, two of
\* them transport streams over different windows
ConcRequests ==
    { Request("playlist", 0, 0),
      Request("MpegTs", 0, 100),
      Request("MpegTs", 50, 100),
      Request("Raw", 0, 100),
      Request("Mp4", 0, 100) }

IdleTask ==
    [pc |-> "idle", request |-> Request("none", 0, 0), files |-> <<>>, i |-> 0,
     st |-> [none |-> TRUE], response |-> NoResponse]

\* the locals of a handler call when it enters its loop
handler_start(handler) ==
    CASE handler = "playlist" -> playlist_start
      [] handler = "MpegTs"   -> mpegts_start
      [] handler = "Mp4"      -> mp4_start
      [] handler = "Raw"      -> [data2 |-> <<>>]

\* the files a handler call loops over
handler_files(request, n) ==
    IF request.handler = "playlist" THEN get_frames(n)
    ELSE frame_files_of(get_frames(n), request.offset_ms, request.length_ms)

\* one round of the loop of the call t, on its own locals
handler_step(t, checks) ==
    LET p == t.files[t.i]
    IN  CASE t.request.handler = "playlist" -> playlist_step(t.st)
          [] t.request.handler = "MpegTs"   -> mpegts_step(t.st, p, 50, checks)
          [] t.request.handler = "Mp4"      -> mp4_step(t.st, p)
          [] t.request.handler = "Raw"      -> [data2 |-> t.st.data2 \o read(p)]

\* the locals of the call t once its loop is over: write_to has run on the
\* TransportStream of a transport-stream call
handler_end_locals(t) ==
    IF t.request.handler = "MpegTs" /\ t.st.res.status = "Ok"
    THEN [t.st EXCEPT !.ts = write_to_self(@)]
    ELSE t.st

\* the response of the call t once its loop is over
handler_response(t) ==
    LET video_bytes ==
            CASE t.request.handler = "MpegTs" -> mpegts_end(t.st)
              [] t.request.handler = "Mp4"    -> mp4_end(t.st)
              [] t.request.handler = "Raw"    -> Ok(t.st.data2)
    IN  IF t.request.handler = "playlist"
        THEN playlist_response(playlist_end(t.st))
        ELSE segment_response(t.request.offset_ms, t.request.length_ms,
                              t.request.handler, t.files, video_bytes)

\* the response of the segment call t when fs::read of a frame has failed
handler_failure(t) ==
    segment_response(t.request.offset_ms, t.request.length_ms,
                     t.request.handler, t.files, Err("Io", U64Zero))

\* task_step on one TransportStream shared by the transport-stream calls
task_step_shared_stream(all, r, checks) ==
    LET t == all[r]
        stepped == [t EXCEPT !.st = handler_step(t, checks), !.i = t.i + 1]
    IN  [q \in DOMAIN all |->
            IF q = r THEN stepped
            ELSE IF /\ t.request.handler = "MpegTs"
                    /\ all[q].request.handler = "MpegTs"
                    /\ all[q].pc = "loop"
            THEN [all[q] EXCEPT !.st.ts = stepped.st.ts]
            ELSE all[q]]

\* the calls after call r has run one round of its loop
task_step(all, r, checks) ==
    LET t == all[r]
    IN  [all EXCEPT ![r] = [t EXCEPT !.st = handler_step(t, checks), !.i = t.i + 1]]

\* a request arrives: the handler lists the files and sets up its locals
Accept(r) ==
    /\ tasks[r].pc = "idle"
    /\ \E request \in ConcRequests :
         tasks' = [tasks EXCEPT ![r] =
                      [pc |-> "loop", request |-> request,
                       files |-> handler_files(request, stored), i |-> 1,
                       st |-> handler_start(request.handler),
                       response |-> NoResponse]]
    /\ UNCHANGED <<ts, result, pushed, overflow_checks, stored, response>>

\* one round of the loop of call r
Step(r) ==
    /\ tasks[r].pc = "loop"
    /\ tasks[r].i <= Len(tasks[r].files)
    /\ tasks' = task_step(tasks, r, overflow_checks)
    /\ UNCHANGED <<ts, result, pushed, overflow_checks, stored, response>>

\* fs::read of the next frame fails: the segment call returns the error
ReadFails(r) ==
    /\ tasks[r].pc = "loop"
    /\ tasks[r].request.handler # "playlist"
    /\ tasks[r].i <= Len(tasks[r].files)
    /\ tasks' = [tasks EXCEPT ![r] =
                    [@ EXCEPT !.pc = "done", !.response = handler_failure(tasks[r])]]
    /\ UNCHANGED <<ts, result, pushed, overflow_checks, stored, response>>

\* the loop of call r is over: the output is written and returned
Respond(r) ==
    /\ tasks[r].pc = "loop"
    /\ tasks[r].i > Len(tasks[r].files)
    /\ tasks' = [tasks EXCEPT ![r] =
                    [@ EXCEPT !.pc = "done",
                              !.st = handler_end_locals(tasks[r]),
                              !.response = handler_response(tasks[r])]]
    /\ UNCHANGED <<ts, result, pushed, overflow_checks, stored, response>>

InitConc ==
    /\ MuxInit
    /\ overflow_checks = FALSE
    /\ stored \in 0..MaxConcFiles
    /\ response = NoResponse
    /\ tasks = [r \in 1..MaxRequests |-> IdleTask]

NextConc ==
    \E r \in 1..MaxRequests : Accept(r) \/ Step(r) \/ ReadFails(r) \/ Respond(r)

SpecConc == InitConc /\ [][NextConc]_vars

----------------------------------------------------------------------------
(* Reading a packet list back: the packets of one elementary stream, and   *)
(* the groups a list of video packets falls into, one per PES packet.      *)

OfPid(packets, pid) == SelectSeq(packets, LAMBDA p : p.header.pid = pid)

PesIndices(packets) == {i \in 1..Len(packets) : packets[i].payload.kind = "Pes"}

NthPes(packets, j) ==
    CHOOSE i \in PesIndices(packets) :
        Cardinality({x \in PesIndices(packets) : x < i}) = j - 1

Group(packets, j) ==
    SubSeq(packets,
           NthPes(packets, j),
           IF j = Cardinality(PesIndices(packets))
           THEN Len(packets)
           ELSE NthPes(packets, j + 1) - 1)

RECURSIVE ConcatData(_)
ConcatData(packets) ==
    IF packets = <<>> THEN <<>>
    ELSE Head(packets).payload.data \o ConcatData(Tail(packets))

RECURSIVE SumSeq(_)
SumSeq(seq) == IF seq = <<>> THEN 0 ELSE Head(seq) + SumSeq(Tail(seq))

CeilDiv(a, b) == (a + b - 1) \div b

\* the output of the last call, when it was a write_to
Written == result.res.value

IsWritten == result.op = "write_to"

----------------------------------------------------------------------------
(* Claims about the muxer, checked under Spec.                             *)

CountersInOrder(packets) ==
    \A k \in 1..Len(packets) : packets[k].header.continuity_counter = (k - 1) % 16

\* C1: the k-th video packet of a TransportStream (k from 0), in emission
\* order, carries continuity counter k mod 16, inside a sample and across
\* the boundary between samples, in the packet list and in what write_to
\* emits; the stored counter is the one the next packet takes, and a new
\* TransportStream starts again at 0.
C1_ContinuityCounterSequence ==
    /\ CountersInOrder(OfPid(ts.packets, VIDEO_ES_PID))
    /\ ts.video_continuity_counter = Len(OfPid(ts.packets, VIDEO_ES_PID)) % 16
    /\ IsWritten => CountersInOrder(OfPid(Written, VIDEO_ES_PID))
    /\ result.op = "new" => ts.video_continuity_counter = 0 /\ ts.packets = <<>>

\* C1 witness: three samples were pushed, the video packets are more than
\* 16, so the counter has wrapped, and they have been written.
C1_Witness ==
    /\ IsWritten
    /\ Len(pushed) >= 2
    /\ Len(OfPid(Written, VIDEO_ES_PID)) > 16

\* the claimed number of packets of a sample
PacketsForSampleClaimed(s) == 1 + CeilDiv(Max(0, s.len - 152), 184)

\* C2 (as claimed): a sample of n bytes is emitted as
\* 1 + ceil(max(0, n - 152) / 184) packets, so the packet list holds the sum
\* of that over the pushed samples and write_to emits 2 more.
C2_Claimed_PacketCount ==
    LET claimed == SumSeq([j \in 1..Len(pushed) |-> PacketsForSampleClaimed(pushed[j])])
    IN  /\ Len(ts.packets) = claimed
        /\ IsWritten => Len(Written) = 2 + claimed

\* C7: what write_to emits starts with the program-association table
\* (PID 0) and the program-map table (PID 256), the same two packets
\* whatever was pushed; everything after them is a video packet; the video
\* packets fall into one group per pushed sample, in push order, each a PES
\* packet followed by raw packets whose data, in order, is the sample.
C7_TablesThenSamplesInOrder ==
    IsWritten =>
        LET video == SubSeq(Written, 3, Len(Written))
        IN  /\ Len(Written) >= 2
            /\ Written[1].header.pid = 0 /\ Written[1].payload.kind = "Pat"
            /\ Written[2].header.pid = PMT_PID /\ Written[2].payload.kind = "Pmt"
            /\ SubSeq(Written, 1, 2) = <<default_pat_packet, default_pmt_packet>>
            /\ \A i \in 1..Len(video) :
                  /\ video[i].header.pid = VIDEO_ES_PID
                  /\ video[i].payload.kind \in {"Pes", "Raw"}
            /\ video # <<>> => video[1].payload.kind = "Pes"
            /\ Cardinality(PesIndices(video)) = Len(pushed)
            /\ \A j \in 1..Len(pushed) :
                  ConcatData(Group(video, j)) = Video(pushed[j].len, pushed[j].seed)

\* C7 witness: a write_to after two different samples, the second of them
\* in more than one packet.
C7_Witness ==
    /\ IsWritten
    /\ Len(pushed) >= 2
    /\ pushed[1] # pushed[2]
    /\ pushed[2].len > 152

\* C8: the first packet of a pushed sample carries an adaptation field, with
\* random-access indicator true and the clock reference timestamp * 90,
\* exactly when the sample is a keyframe; no continuation packet carries one.
C8_AdaptationFieldIffKeyframe ==
    /\ Cardinality(PesIndices(ts.packets)) = Len(pushed)
    /\ \A j \in 1..Len(pushed) :
          LET first == ts.packets[NthPes(ts.packets, j)]
          IN  IF pushed[j].keyframe
              THEN /\ first.adaptation_field # None
                   /\ first.adaptation_field.random_access_indicator = TRUE
                   /\ first.adaptation_field.pcr = MulU64(pushed[j].timestamp, 90).val
              ELSE first.adaptation_field = None
    /\ \A i \in 1..Len(ts.packets) :
          ts.packets[i].payload.kind = "Raw" => ts.packets[i].adaptation_field = None

\* C8 witness: a keyframe and a non-keyframe sample were pushed, one of
\* them in several packets.
C8_Witness ==
    /\ \E j \in 1..Len(pushed) : pushed[j].keyframe /\ pushed[j].len > 152
    /\ \E j \in 1..Len(pushed) : ~pushed[j].keyframe
    /\ result.op = "push_video"

\* timestamp * 90 as a number, beyond 64 bits: does it exceed max?
Exceeds(product, max) == product.carry # 0 \/ ~LeU64(product.val, max)

ClockExceeded(s) == Exceeds(MulU64(s.timestamp, 90), ClockReferenceMax)

TimestampExceeded(s) ==
    LET sum == AddU64(s.timestamp, s.composition_time)
        pts == MulU64(sum.val, 90)
    IN  \/ sum.carry # 0
        \/ Exceeds(pts, TimestampMax)
        \/ Exceeds(MulU64(s.timestamp, 90), TimestampMax)

\* C9 (as claimed): push_video returns ClockValueOutOfRange when
\* timestamp * 90 exceeds the clock-reference range, InvalidTimestamp when
\* (timestamp + composition_time) * 90 or timestamp * 90 exceeds the 33-bit
\* range, and succeeds in every other case.
C9_Claimed_FailsIffOutOfRange ==
    result.op = "push_video" =>
        LET s == result.args
        IN  IF ClockExceeded(s)
            THEN result.res.status = "Err" /\ result.res.kind = "ClockValueOutOfRange"
            ELSE IF TimestampExceeded(s)
            THEN result.res.status = "Err" /\ result.res.kind = "InvalidTimestamp"
            ELSE result.res.status = "Ok"

\* C10: push_video never returns PayloadTooBig, and no packet it builds
\* carries more than the 184 bytes a packet holds.
C10_NoPayloadTooBig ==
    /\ result.res.status = "Err" => result.res.kind # "PayloadTooBig"
    /\ \A i \in 1..Len(ts.packets) : Len(ts.packets[i].payload.data) <= 184

\* C10 witness: a sample cut into a first chunk and several continuation
\* chunks was pushed.
C10_Witness ==
    /\ result.op = "push_video"
    /\ result.res.status = "Ok"
    /\ result.args.len > 152 + 2 * 184
    /\ Len(ts.packets) >= 6

----------------------------------------------------------------------------
(* Reading a playlist back: its segment descriptors, in order, each with   *)
(* the duration the #EXTINF line before it advertises.                     *)

SegmentLines(body) ==
    SelectSeq([i \in 1..Len(body) |-> i], LAMBDA i : body[i].line = "segment")

Descriptors(body) ==
    LET at == SegmentLines(body)
    IN  [k \in 1..Len(at) |->
            [offset |-> body[at[k]].offset,
             length |-> body[at[k]].length,
             extinf |-> body[at[k] - 1]]]

\* "{secs}.{tenths}" seconds, in ms
AdvertisedMs(extinf) == extinf.secs * 1000 + extinf.tenths * 100

\* the frames the descriptors d[k..] select, one window after the other
RECURSIVE WindowsFrom(_, _, _)
WindowsFrom(all, d, k) ==
    IF k > Len(d) THEN <<>>
    ELSE frame_files_of(all, d[k].offset, d[k].length) \o WindowsFrom(all, d, k + 1)

IsPlaylist == response.kind = "playlist"

IsSegment == response.kind = "segment"

----------------------------------------------------------------------------
(* Claims about the handlers, checked under SpecHls.                       *)

\* C3 (as claimed): the duration each playlist entry advertises in its
\* #EXTINF line equals 50 ms times the number of frames get_segment selects
\* for that entry's offset and length.
C3_Claimed_ExtinfMatchesSelection ==
    IsPlaylist =>
        LET d == Descriptors(response.body)
        IN  \A k \in 1..Len(d) :
                /\ d[k].extinf.line = "#EXTINF"
                /\ AdvertisedMs(d[k].extinf) =
                       50 * Len(frame_files_of(get_frames(stored),
                                               d[k].offset, d[k].length))

\* C4: the descriptors of a playlist are contiguous from offset 0, and the
\* windows get_segment resolves them to, one after the other in offset
\* order, are the stored frames, each once and in order.
C4_DescriptorsPartitionSequence ==
    IsPlaylist =>
        LET d == Descriptors(response.body)
        IN  /\ Len(d) > 0 => d[1].offset = 0
            /\ \A k \in 1..(Len(d) - 1) : d[k + 1].offset = d[k].offset + d[k].length
            /\ WindowsFrom(get_frames(stored), d, 1) = get_frames(stored)

\* C4 witness: a playlist of three descriptors, the last one shorter.
C4_Witness ==
    /\ IsPlaylist
    /\ Len(Descriptors(response.body)) = 3
    /\ Descriptors(response.body)[3].length < 5000

\* C5: the descriptor lengths of a playlist sum to 50 ms per stored frame,
\* all but the last are 5000 ms, the last is in (0, 5000], an empty stream
\* has none, and #EXT-X-ENDLIST is the one last line after them; 120 frames
\* give (0, 5000) then (5000, 1000).
C5_DescriptorLengths ==
    IsPlaylist =>
        LET body == response.body
            d == Descriptors(body)
        IN  /\ SumSeq([k \in 1..Len(d) |-> d[k].length]) = stored * 50
            /\ \A k \in 1..(Len(d) - 1) : d[k].length = 5000
            /\ Len(d) > 0 => d[Len(d)].length > 0 /\ d[Len(d)].length <= 5000
            /\ stored = 0 => Len(d) = 0
            /\ body[Len(body)].line = "#EXT-X-ENDLIST"
            /\ \A i \in 1..(Len(body) - 1) : body[i].line # "#EXT-X-ENDLIST"
            /\ stored = 120 =>
                   [k \in 1..Len(d) |-> <<d[k].offset, d[k].length>>] =
                       <<(<<0, 5000>>), (<<5000, 1000>>)>>

\* C5 witness: the playlist of a stream that ends on a segment boundary,
\* where the last full descriptor is written after the loop.
C5_Witness ==
    /\ IsPlaylist
    /\ stored = 200
    /\ Len(Descriptors(response.body)) = 2

\* C6: get_segment selects the frames from index offset_ms / 50 on,
\* min(length_ms / 50, stored - offset_ms / 50) of them or none when that is
\* negative, in stored order, and answers without error whatever the offset
\* and the length.
C6_WindowSelection ==
    IsSegment =>
        LET start == response.request.offset_ms \div 50
            want  == response.request.length_ms \div 50
            count == Max(0, Min(want, stored - start))
        IN  /\ Len(response.frame_files) = count
            /\ \A i \in 1..count : response.frame_files[i] = get_frames(stored)[start + i]
            /\ response.status = "Ok"

\* C6 witness: a window that starts inside the stream, has a length off
\* the frame grid, and is cut short by the end of the stream.
C6_Witness ==
    /\ IsSegment
    /\ response.request.offset_ms = 5000
    /\ response.request.length_ms = 1499
    /\ Len(response.frame_files) > 0
    /\ Len(response.frame_files) < 1499 \div 50

\* C11: a segment request whose offset is at or past the end of the stream
\* (offset_ms / 50 >= stored), or whose length_ms / 50 is 0, selects no
\* frame and succeeds for every output format; the transport-stream output
\* is exactly the two table packets and the raw output is empty.
C11_EmptySelectionSucceeds ==
    (/\ IsSegment
     /\ \/ response.request.offset_ms \div 50 >= stored
        \/ response.request.length_ms \div 50 = 0) =>
        /\ response.frame_files = <<>>
        /\ response.status = "Ok"
        /\ response.request.video_type = "MpegTs" =>
               /\ Len(response.body) = 2
               /\ response.body[1].header.pid = 0
               /\ response.body[1].payload.kind = "Pat"
               /\ response.body[2].header.pid = PMT_PID
               /\ response.body[2].payload.kind = "Pmt"
        /\ response.request.video_type = "Raw" => response.body = <<>>

\* C11 witness: a transport-stream request that starts exactly at the end
\* of a stream of 120 frames, with a full segment length.
C11_Witness ==
    /\ IsSegment
    /\ stored = 120
    /\ response.request.offset_ms = 6000
    /\ response.request.length_ms = 5000
    /\ response.request.video_type = "MpegTs"
    /\ response.status = "Ok"

\* the PES packets of a packet sequence, in order: the first packets of
\* the samples
PesPackets(packets) == SelectSeq(packets, LAMBDA p : p.payload.kind = "Pes")

\* C13: in a transport-stream segment the i-th selected frame (i from 0)
\* is given the time i * 50 ms whatever the requested offset, so its PTS
\* and DTS are both i * 50 * 90 ticks, strictly increasing over the
\* segment and starting at 0 for every window.
C13_SegmentTimeRestartsAtZero ==
    (IsSegment /\ response.request.video_type = "MpegTs") =>
        LET pes == PesPackets(response.body)
        IN  /\ response.status = "Ok"
            /\ Len(pes) = Len(response.frame_files)
            /\ \A i \in 1..Len(pes) :
                  /\ pes[i].payload.header.pts = U64((i - 1) * 50 * 90)
                  /\ pes[i].payload.header.dts = U64((i - 1) * 50 * 90)

\* C13 witness: the second window of a playlist, offset 5000, resolved to
\* 100 frames whose last PES packet has PTS 99 * 4500.
C13_Witness ==
    /\ IsSegment
    /\ response.request.video_type = "MpegTs"
    /\ response.request.offset_ms = 5000
    /\ Len(response.frame_files) = 100
    /\ PesPackets(response.body)[100].payload.header.pts = U64(445500)

\* the calls of one kind an Mp4Writer was given, in order
CallsOf(wrt, call) == SelectSeq(wrt, LAMBDA c : c.call = call)

\* C15: the MP4 build adds exactly one video track, before any sample,
\* writes the selected frames as samples in selection order, and gives the
\* i-th sample (i from 0) start time i * 60000 and duration 60000,
\* whatever the requested offset and the content of the frame.
C15_Mp4OneTrackRunningTime ==
    (IsSegment /\ response.request.video_type = "Mp4") =>
        LET wrt == response.body
            samples == CallsOf(wrt, "write_sample")
        IN  /\ response.status = "Ok"
            /\ Len(CallsOf(wrt, "add_track")) = 1
            /\ wrt[2].call = "add_track"
            /\ wrt[2].config.track_type = "Video"
            /\ \A k \in 1..2 : wrt[k].call # "write_sample"
            /\ Len(samples) = Len(response.frame_files)
            /\ \A i \in 1..Len(samples) :
                  /\ samples[i].track_id = 1
                  /\ samples[i].sample.bytes = read(response.frame_files[i])
                  /\ samples[i].sample.start_time = (i - 1) * 60000
                  /\ samples[i].sample.duration = 60000

\* C15 witness: an MP4 segment of 100 frames from offset 5000, whose last
\* sample starts at 99 * 60000.
C15_Witness ==
    /\ IsSegment
    /\ response.request.video_type = "Mp4"
    /\ response.request.offset_ms = 5000
    /\ Len(response.frame_files) = 100
    /\ CallsOf(response.body, "write_sample")[100].sample.start_time = 5940000

----------------------------------------------------------------------------
(* Further claims about the TransportStream, checked under Spec.           *)

\* C16: chunking keeps the payload: the data of the first packet of a
\* pushed sample followed by the data of its continuation packets is the
\* payload, every byte once and in order; the first chunk has
\* min(n, 152) bytes, every later chunk of the sample is a non-empty raw
\* packet, and a payload of no bytes still gives exactly one PES packet.
C16_ChunkingPreservesPayload ==
    /\ Cardinality(PesIndices(ts.packets)) = Len(pushed)
    /\ \A j \in 1..Len(pushed) :
          LET g == Group(ts.packets, j)
              n == pushed[j].len
          IN  /\ ConcatData(g) = Video(n, pushed[j].seed)
              /\ g[1].payload.kind = "Pes"
              /\ Len(g[1].payload.data) = Min(n, 152)
              /\ \A k \in 2..Len(g) :
                    /\ g[k].payload.kind = "Raw"
                    /\ Len(g[k].payload.data) > 0
              /\ n = 0 => Len(g) = 1

\* C16 witness: an empty payload and one cut into six chunks were pushed
\* on the same TransportStream.
C16_Witness ==
    /\ result.op = "push_video"
    /\ \E j \in 1..Len(pushed) : pushed[j].len = 0
    /\ \E j \in 1..Len(pushed) :
          pushed[j].len = 885 /\ Len(Group(ts.packets, j)) = 6

\* C17: a push_video call that returns an error leaves the TransportStream
\* as it was, packet list and stored counter, so the stored counter always
\* equals the number of video packets in the list mod 16.
C17_FailedPushLeavesStreamUnchanged ==
    [][/\ (result'.op = "push_video" /\ result'.res.status = "Err") => ts' = ts
       /\ ts'.video_continuity_counter =
              Len(OfPid(ts'.packets, VIDEO_ES_PID)) % 16]_vars

\* C17 witness: a push_video call has failed on a TransportStream that
\* holds the packets of two earlier samples.
C17_Witness ==
    /\ result.op = "push_video"
    /\ result.res.status = "Err"
    /\ Len(pushed) = 2
    /\ Len(ts.packets) > 2

----------------------------------------------------------------------------
(* Claims about handler calls served at the same time, checked under       *)
(* SpecConc.                                                               *)

\* the response the request of call t gets from a handler that runs alone
RunAlone(t) ==
    IF t.request.handler = "playlist" THEN get_playlist(stored)
    ELSE get_segment(stored, t.request.offset_ms, t.request.length_ms,
                     t.request.handler, overflow_checks)

IsDone(r) == tasks[r].pc = "done"

\* C12: two calls with the same request over the same stored frames return
\* the same output, and a second write_to on the TransportStream of a
\* finished transport-stream call gives the bytes the first one gave: the
\* packets and the counter are still those the output was written from.
C12_SameRequestSameOutput ==
    /\ \A r, q \in DOMAIN tasks :
          (/\ IsDone(r) /\ IsDone(q)
           /\ tasks[r].request = tasks[q].request
           /\ tasks[r].response.status = "Ok"
           /\ tasks[q].response.status = "Ok") =>
              tasks[r].response = tasks[q].response
    /\ \A r \in DOMAIN tasks :
          (/\ IsDone(r)
           /\ tasks[r].request.handler = "MpegTs"
           /\ tasks[r].response.status = "Ok") =>
              /\ write_to(tasks[r].st.ts) = tasks[r].response.body
              /\ tasks[r].st.ts.video_continuity_counter =
                     Len(OfPid(tasks[r].response.body, VIDEO_ES_PID)) % 16

\* C12 witness: two calls have built the same transport-stream segment of
\* two frames, three video packets after the tables.
C12_Witness ==
    /\ IsDone(1) /\ IsDone(2)
    /\ tasks[1].request = Request("MpegTs", 0, 100)
    /\ tasks[2].request = tasks[1].request
    /\ tasks[1].response.status = "Ok"
    /\ tasks[2].response.status = "Ok"
    /\ Len(tasks[1].response.body) = 5

\* C14: whatever the interleaving of the steps of the calls, a call that
\* succeeds returns what its request returns when served alone, with
\* continuity counters and sample times that start at 0, and a call that
\* fails returns an error without a body; neither depends on the other
\* calls or on how they ended.
C14_ConcurrentRequestsIndependent ==
    \A r \in DOMAIN tasks :
        IsDone(r) =>
            LET t == tasks[r]
                alone == RunAlone(t)
            IN  IF t.response.status = "Ok"
                THEN /\ t.response = alone
                     /\ t.request.handler = "MpegTs" =>
                            LET video == OfPid(t.response.body, VIDEO_ES_PID)
                            IN  /\ CountersInOrder(video)
                                /\ video # <<>> =>
                                       video[1].payload.header.pts = U64Zero
                ELSE /\ t.response.status = "Err"
                     /\ t.response.body = <<>>
                     /\ t.response.request = alone.request
                     /\ t.response.frame_files = alone.frame_files

\* C14 witness: a transport-stream call has returned the segment of the
\* second frame, two video packets, while another transport-stream call,
\* over another window, has failed after pushing its first frame.
C14_Witness ==
    /\ IsDone(1) /\ IsDone(2)
    /\ tasks[1].request = Request("MpegTs", 50, 100)
    /\ tasks[1].response.status = "Ok"
    /\ Len(tasks[1].response.body) = 4
    /\ tasks[2].request = Request("MpegTs", 0, 100)
    /\ tasks[2].response.status = "Err"
    /\ tasks[2].i = 2

====
